---------------------------- MODULE Spec2Model ----------------------------
(***************************************************************************)
(* A model of the cellwars Rust bot SDK (src/src/lib.rs): the wire codec,  *)
(* the Communicator (pending queue + transport), the Cell handle, the      *)
(* state builder and GameCoordinator::run_loop.                            *)
(*                                                                         *)
(* Integers.  The program works on u32 / i32 / u64.  The model keeps the   *)
(* two's-complement behaviour of the casts and of the arithmetic, on a     *)
(* word of Bits bits instead of 32 (u32 = 0 .. 2^Bits - 1, i32 =           *)
(* -2^(Bits-1) .. 2^(Bits-1) - 1, u64 = 0 .. 2^(2*Bits) - 1).  Arithmetic  *)
(* on i32 wraps (the release profile of the build).                        *)
(***************************************************************************)
EXTENDS Integers, Sequences, FiniteSets, TLC

\* Width of the machine word that stands for u32 / i32.
Bits == 8

\* Most commands run_loop reads in one run.
MaxReads == 4

\* Most actions the callback stages in one round.
MaxPending == 2

\* Most tokens after the keyword in the lines given to decode on its own.
MaxArgs == 6

\* Most add_action calls of one staging thread.
MaxStaged == 2

\* Most end_round calls of the thread that ends rounds.
MaxEndRounds == 2

U32Mod == 2 ^ Bits
I32Half == 2 ^ (Bits - 1)
U64Mod == U32Mod * U32Mod

U32Max == U32Mod - 1
I32Max == I32Half - 1
I32Min == 0 - I32Half

\* `v as i32` for a u32 v.
AsI32(v) == IF v >= I32Half THEN v - U32Mod ELSE v

\* `v as u32` for an i32 v.
AsU32(v) == v % U32Mod

\* `v as u64` for an i32 v (sign extension).
AsU64(v) == IF v < 0 THEN v + U64Mod ELSE v

\* The i32 that an i32 operation with mathematical result n leaves (wrapping).
WrapI32(n) == ((n + I32Half) % U32Mod) - I32Half

\* i32::abs.
AbsI32(v) == WrapI32(IF v < 0 THEN 0 - v ELSE v)

---------------------------------------------------------------------------
(* Wire codec *)

\* A line of text after `s.trim().split(' ')`: the first token and the
\* tokens after it.  split never yields an empty vector: the empty line is the
\* single token "".  An argument token is its text; `n` is the number the text
\* denotes when it is the decimal text of a number (isnum).
Token(isnum, n, s) == [isnum |-> isnum, n |-> n, s |-> s]
Num(n) == Token(TRUE, n, "")
Txt(s) == Token(FALSE, 0, s)
Line(kw, args) == [kw |-> kw, args |-> args]

\* A parse that takes any decimal number, whatever its size or sign.
parse_any_number_ok(tok) == tok.isnum

\* str::parse::<u32>: a decimal number that fits the word.
parse_u32_ok(tok) == tok.isnum /\ tok.n >= 0 /\ tok.n <= U32Max

ParseError == [tag |-> "ParseCommandError"]

\* Number of tokens of the line (tokens.len()).
tokens_len(s) == 1 + Len(s.args)

\* impl FromStr for Command.
from_str(s) ==
    IF tokens_len(s) = 0 THEN ParseError
    ELSE IF \E i \in 1 .. Len(s.args) : ~parse_u32_ok(s.args[i]) THEN ParseError
    ELSE LET parameters == [i \in 1 .. Len(s.args) |-> s.args[i].n]
             n == Len(parameters)
         IN CASE s.kw = "INITIALIZE" /\ n = 5 ->
                    [tag |-> "Initialize", width |-> parameters[1],
                     height |-> parameters[2], team_id |-> parameters[3],
                     my_column |-> parameters[4], enemy_column |-> parameters[5]]
              [] s.kw = "SPAWN" /\ n = 6 ->
                    [tag |-> "Spawn", cell_id |-> parameters[1], x |-> parameters[2],
                     y |-> parameters[3], health |-> parameters[4],
                     team_id |-> parameters[5], age |-> parameters[6]]
              [] s.kw = "DIE" /\ n = 1 ->
                    [tag |-> "Die", cell_id |-> parameters[1]]
              [] s.kw = "SET_CELL_PROPERTIES" /\ n = 5 ->
                    [tag |-> "SetCellProperties", cell_id |-> parameters[1],
                     x |-> parameters[2], y |-> parameters[3],
                     health |-> parameters[4], age |-> parameters[5]]
              [] s.kw = "CONFLICTING_ACTIONS" /\ n = 2 ->
                    [tag |-> "ConflictingActions", x |-> parameters[1], y |-> parameters[2]]
              [] s.kw = "RUN_ROUND" /\ n = 0 -> [tag |-> "RunRound"]
              [] s.kw = "END_GAME" /\ n = 0 -> [tag |-> "EndGame"]
              [] OTHER -> ParseError

\* impl fmt::Display for Action: the line send_action writes.
fmt(action) ==
    CASE action.tag = "Move" -> Line("MOVE", <<action.cell_id, action.x, action.y>>)
      [] action.tag = "Attack" -> Line("ATTACK", <<action.cell_id, action.x, action.y>>)
      [] action.tag = "Explode" -> Line("EXPLODE", <<action.cell_id>>)
      [] action.tag = "Initialized" -> Line("INITIALIZED", <<>>)
      [] action.tag = "RoundEnd" -> Line("ROUND_END", <<>>)

Move(cell_id, x, y) == [tag |-> "Move", cell_id |-> cell_id, x |-> x, y |-> y]
Attack(cell_id, x, y) == [tag |-> "Attack", cell_id |-> cell_id, x |-> x, y |-> y]
Explode(cell_id) == [tag |-> "Explode", cell_id |-> cell_id]
Initialized == [tag |-> "Initialized"]
RoundEnd == [tag |-> "RoundEnd"]

---------------------------------------------------------------------------
(* Position, Direction *)

Position(x, y) == [x |-> x, y |-> y]

\* Position::translated_by_offset.
translated_by_offset(p, x, y) == Position(WrapI32(p.x + x), WrapI32(p.y + y))

\* An as_position_offset with North and South exchanged.
as_position_offset_flipped(direction) ==
    CASE direction = "North" -> <<0, 1>>
      [] direction = "South" -> <<0, -1>>
      [] direction = "East" -> <<1, 0>>
      [] direction = "West" -> <<-1, 0>>

\* Direction::as_position_offset.
as_position_offset(direction) ==
    CASE direction = "North" -> <<0, -1>>
      [] direction = "South" -> <<0, 1>>
      [] direction = "East" -> <<1, 0>>
      [] direction = "West" -> <<-1, 0>>

Direction == {"North", "South", "East", "West"}

\* Position::translated_by_direction.
translated_by_direction(p, direction) ==
    LET offset == as_position_offset(direction)
    IN translated_by_offset(p, offset[1], offset[2])

\* Position::distance.
distance(p, q) ==
    AsU64(WrapI32(AbsI32(WrapI32(p.x - q.x)) + AbsI32(WrapI32(p.y - q.y))))

---------------------------------------------------------------------------
(* WorldProperties, Cell, WorldState *)

WorldProperties(width, height, my_team_id, my_column, enemy_column) ==
    [width |-> width, height |-> height, my_team_id |-> my_team_id,
     my_column |-> my_column, enemy_column |-> enemy_column]

\* #[derive(Default)] for WorldProperties.
DefaultWorldProperties == WorldProperties(0, 0, 0, 0, 0)

\* struct Cell (the communicator handle is the one Communicator of the run).
Cell(cell_id, position, health, team_id, age, is_enemy, world_properties) ==
    [cell_id |-> cell_id, position |-> position, health |-> health,
     team_id |-> team_id, age |-> age, is_enemy |-> is_enemy,
     world_properties |-> world_properties]

\* struct WorldState: cells is the HashMap, a function on the keys present.
WorldState(cells, properties) == [cells |-> cells, properties |-> properties]

\* #[derive(Default)] for WorldState.
DefaultWorldState == WorldState(<<>>, DefaultWorldProperties)

width(ws) == ws.properties.width
height(ws) == ws.properties.height
my_team_id(ws) == ws.properties.my_team_id
my_starting_column(ws) == ws.properties.my_column
enemy_starting_column(ws) == ws.properties.enemy_column

\* WorldState::my_cells / enemy_cells (as the set of the cells returned).
my_cells(ws) ==
    {ws.cells[k] : k \in {j \in DOMAIN ws.cells : ws.cells[j].team_id = my_team_id(ws)}}

enemy_cells(ws) ==
    {ws.cells[k] : k \in {j \in DOMAIN ws.cells : ws.cells[j].team_id # my_team_id(ws)}}

---------------------------------------------------------------------------
(* Cell: legality checks *)

\* Cell::is_in_bounds.
is_in_bounds(cell, position) ==
    /\ position.x >= 0
    /\ position.y >= 0
    /\ position.x < AsI32(cell.world_properties.width)
    /\ position.y < AsI32(cell.world_properties.height)

\* Cell::can_move_to_position.
can_move_to_position(cell, position) ==
    is_in_bounds(cell, position) /\ distance(cell.position, position) = 1

\* Cell::can_move_in_direction.
can_move_in_direction(cell, direction) ==
    can_move_to_position(cell, translated_by_direction(cell.position, direction))

\* Cell::can_attack_position.
can_attack_position(cell, position) ==
    /\ is_in_bounds(cell, position)
    /\ AbsI32(WrapI32(position.x - cell.position.x)) <= 1
    /\ AbsI32(WrapI32(position.y - cell.position.y)) <= 1

\* Cell::can_attack_cell.
can_attack_cell(cell, other) == can_attack_position(cell, other.position)

---------------------------------------------------------------------------
(* Communicator::add_action and the Cell's intents.  Each takes the pending   *)
(* queue and gives the pending queue the call leaves.                        *)

\* Communicator::add_action.
add_action(pending, action) == Append(pending, action)

\* Cell::attack_position.
attack_position(cell, position, pending) ==
    IF can_attack_position(cell, position)
    THEN add_action(pending, Attack(cell.cell_id, AsU32(position.x), AsU32(position.y)))
    ELSE pending

\* Cell::attack_cell.
attack_cell(cell, other, pending) == attack_position(cell, other.position, pending)

\* Cell::move_to_position.
move_to_position(cell, position, pending) ==
    IF can_move_to_position(cell, position)
    THEN add_action(pending, Move(cell.cell_id, AsU32(position.x), AsU32(position.y)))
    ELSE pending

\* A move_in_direction that stages the MOVE itself and then calls
\* move_to_position as well.
move_in_direction_twice(cell, direction, pending) ==
    IF can_move_in_direction(cell, direction)
    THEN LET target == translated_by_direction(cell.position, direction)
         IN move_to_position(cell, target,
                add_action(pending, Move(cell.cell_id, AsU32(target.x), AsU32(target.y))))
    ELSE pending

\* Cell::move_in_direction.
move_in_direction(cell, direction, pending) ==
    IF can_move_in_direction(cell, direction)
    THEN move_to_position(cell, translated_by_direction(cell.position, direction), pending)
    ELSE pending

\* Cell::explode.
explode(cell, pending) == add_action(pending, Explode(cell.cell_id))

---------------------------------------------------------------------------
(* State builder *)

\* An apply_initialize with the two starting columns exchanged.
apply_initialize_swapped(w, h, team, my_column, enemy_column) ==
    WorldState(<<>>, WorldProperties(w, h, team, enemy_column, my_column))

\* GameCoordinator::apply_initialize.
apply_initialize(w, h, team, my_column, enemy_column) ==
    WorldState(<<>>, WorldProperties(w, h, team, my_column, enemy_column))

\* An insert that keeps the value of a key already present.
InsertIfAbsent(cells, k, v) ==
    [j \in DOMAIN cells \cup {k} |-> IF j \in DOMAIN cells THEN cells[j] ELSE v]

\* HashMap::insert: the key is added, or its value replaced.
Insert(cells, k, v) ==
    [j \in DOMAIN cells \cup {k} |-> IF j = k THEN v ELSE cells[j]]

\* HashMap::remove: the key is dropped when present.
Remove(cells, k) == [j \in DOMAIN cells \ {k} |-> cells[j]]

\* An apply_spawn whose cell carries the default bounds instead of a copy of
\* the snapshot's properties.
apply_spawn_default_bounds(world_state, cell_id, x, y, health, team_id, age) ==
    WorldState(
      Insert(world_state.cells, cell_id,
             Cell(cell_id, Position(AsI32(x), AsI32(y)), health, team_id, age,
                  team_id # my_team_id(world_state), DefaultWorldProperties)),
      world_state.properties)

\* An apply_spawn that marks every cell as an enemy.
apply_spawn_all_enemies(world_state, cell_id, x, y, health, team_id, age) ==
    WorldState(
      Insert(world_state.cells, cell_id,
             Cell(cell_id, Position(AsI32(x), AsI32(y)), health, team_id, age,
                  TRUE, world_state.properties)),
      world_state.properties)

\* GameCoordinator::apply_spawn.
apply_spawn(world_state, cell_id, x, y, health, team_id, age) ==
    LET is_enemy == team_id # my_team_id(world_state)
    IN WorldState(
         Insert(world_state.cells, cell_id,
                Cell(cell_id, Position(AsI32(x), AsI32(y)), health, team_id, age,
                     is_enemy, world_state.properties)),
         world_state.properties)

\* GameCoordinator::apply_set_cell_properties: `.expect("Invalid cell id")`
\* panics when the key is absent.
apply_set_cell_properties_panics(world_state, cell_id) ==
    cell_id \notin DOMAIN world_state.cells

\* An apply_set_cell_properties that leaves the age as it was.
apply_set_cell_properties_no_age(world_state, cell_id, x, y, health, age) ==
    WorldState(
      [world_state.cells EXCEPT ![cell_id] =
          [@ EXCEPT !.position = Position(AsI32(x), AsI32(y)),
                    !.health = health]],
      world_state.properties)

apply_set_cell_properties(world_state, cell_id, x, y, health, age) ==
    WorldState(
      [world_state.cells EXCEPT ![cell_id] =
          [@ EXCEPT !.position = Position(AsI32(x), AsI32(y)),
                    !.health = health,
                    !.age = age]],
      world_state.properties)

\* An apply_die that removes the cell only when it is one of mine.
apply_die_mine_only(world_state, cell_id) ==
    IF cell_id \in DOMAIN world_state.cells
       /\ world_state.cells[cell_id].team_id # my_team_id(world_state)
    THEN world_state
    ELSE WorldState(Remove(world_state.cells, cell_id), world_state.properties)

\* GameCoordinator::apply_die.
apply_die(world_state, cell_id) ==
    WorldState(Remove(world_state.cells, cell_id), world_state.properties)

\* An apply_command whose Initialize keeps the cells of the previous snapshot.
apply_command_keeping_cells(command, world_state) ==
    CASE command.tag = "Initialize" ->
            WorldState(world_state.cells,
                       apply_initialize(command.width, command.height, command.team_id,
                                        command.my_column, command.enemy_column).properties)
      [] command.tag = "Spawn" ->
            apply_spawn(world_state, command.cell_id, command.x, command.y,
                        command.health, command.team_id, command.age)
      [] command.tag = "Die" -> apply_die(world_state, command.cell_id)
      [] command.tag = "SetCellProperties" ->
            apply_set_cell_properties(world_state, command.cell_id, command.x,
                                      command.y, command.health, command.age)
      [] OTHER -> world_state

\* GameCoordinator::apply_command: whether the call panics, and the snapshot
\* it returns when it does not.
apply_command_panics(command, world_state) ==
    /\ command.tag = "SetCellProperties"
    /\ apply_set_cell_properties_panics(world_state, command.cell_id)

apply_command(command, world_state) ==
    CASE command.tag = "Initialize" ->
            apply_initialize(command.width, command.height, command.team_id,
                             command.my_column, command.enemy_column)
      [] command.tag = "Spawn" ->
            apply_spawn(world_state, command.cell_id, command.x, command.y,
                        command.health, command.team_id, command.age)
      [] command.tag = "Die" -> apply_die(world_state, command.cell_id)
      [] command.tag = "SetCellProperties" ->
            apply_set_cell_properties(world_state, command.cell_id, command.x,
                                      command.y, command.health, command.age)
      [] OTHER -> world_state

---------------------------------------------------------------------------
(* The run: GameCoordinator::run_loop over one Communicator *)

VARIABLES
    pc,               \* where run_loop is
    world_state,      \* run_loop's local world_state
    command,          \* run_loop's local command (the last command decoded)
    pending_actions,  \* CommunicatorDetails::pending_actions
    output,           \* the lines written to CommunicatorDetails::output
    flushed,          \* how many of them the last flush pushed to the transport
    reads,            \* read_command calls so far
    error,            \* what made run_loop return Err, "none" otherwise
    run_rounds,       \* RUN_ROUND commands read
    callbacks,        \* bot.run_round invocations
    end_rounds,       \* end_round calls
    rounds_completed, \* end_round calls that returned Ok
    inits,            \* Initialize commands applied
    first_init,       \* the properties the first of them carried
    died,             \* ids a Die removed while present
    last_call,        \* the Cell method the running callback called last
    answer,           \* what it returned, for the can_* methods
    line,             \* read_command's local line: the line last read
    stream,           \* the lines of the input, when the run is given them ahead
    lock,             \* Communicator::details, the Mutex: the thread that holds it
    thread_pc,        \* where each thread that shares the Communicator is
    taken,            \* end_round's local pending_actions, what is left to send
    staged            \* how many add_action calls of each staging thread returned

vars == <<pc, world_state, command, pending_actions, output, flushed, reads, error,
          run_rounds, callbacks, end_rounds, rounds_completed, inits, first_init,
          died, last_call, answer, line, stream, lock, thread_pc, taken, staged>>

NoCommand == [tag |-> "None"]

\* String::new(): the line before read_line has put anything in it.
NoLine == Line("", <<>>)

\* The threads that share the Communicator besides the one in run_loop: the
\* threads that stage, one that calls end_round, one that calls flush_action.
Stagers == {"s1", "s2"}
Threads == Stagers \cup {"ender", "flusher"}

\* No such thread has started and the Mutex is free.
NoThreads ==
    /\ lock = "none"
    /\ thread_pc = [t \in Threads |-> "idle"]
    /\ taken = <<>>
    /\ staged = [t \in Stagers |-> 0]

Call(op, cell_id, position, direction, other) ==
    [op |-> op, cell_id |-> cell_id, position |-> position,
     direction |-> direction, other |-> other]

NoCall == Call("none", 0, Position(0, 0), "North", 0)

\* run_loop has returned (Ok, Err) or unwound (a panic).
Terminal == {"ended", "failed", "panicked"}

\* The lines the engine may send, and what a read may find instead of a line.
InitializeLines ==
    { Line("INITIALIZE", <<Num(5), Num(5), Num(1), Num(0), Num(4)>>),
      Line("INITIALIZE", <<Num(3), Num(2), Num(2), Num(2), Num(0)>>) }

SpawnLines ==
    { Line("SPAWN", <<Num(1), Num(0), Num(2), Num(100), Num(1), Num(0)>>),
      Line("SPAWN", <<Num(2), Num(1), Num(2), Num(100), Num(2), Num(0)>>),
      Line("SPAWN", <<Num(1), Num(1), Num(1), Num(50), Num(2), Num(1)>>) }

DieLines == { Line("DIE", <<Num(1)>>), Line("DIE", <<Num(2)>>) }

SetCellPropertiesLines ==
    { Line("SET_CELL_PROPERTIES", <<Num(1), Num(1), Num(2), Num(90), Num(1)>>) }

OtherLines ==
    { Line("CONFLICTING_ACTIONS", <<Num(1), Num(2)>>),
      Line("RUN_ROUND", <<>>),
      Line("END_GAME", <<>>) }

\* Lines from_str rejects: the empty line (also what read_line leaves at the
\* end of the stream), an unknown keyword, a non-integer argument, a wrong
\* number of arguments.
BadLines ==
    { Line("", <<>>),
      Line("FOO", <<>>),
      Line("DIE", <<Txt("x")>>),
      Line("RUN_ROUND", <<Num(1)>>) }

InputLines ==
    InitializeLines \cup SpawnLines \cup DieLines \cup SetCellPropertiesLines
        \cup OtherLines \cup BadLines

Init ==
    /\ pc = "start"
    /\ world_state = DefaultWorldState
    /\ command = NoCommand
    /\ pending_actions = <<>>
    /\ output = <<>>
    /\ flushed = 0
    /\ reads = 0
    /\ error = "none"
    /\ run_rounds = 0
    /\ callbacks = 0
    /\ end_rounds = 0
    /\ rounds_completed = 0
    /\ inits = 0
    /\ first_init = DefaultWorldProperties
    /\ died = {}
    /\ last_call = NoCall
    /\ answer = FALSE
    /\ line = NoLine
    /\ stream = <<>>
    /\ NoThreads

\* Communicator::send_action: one more line in the writer.
send_action(action, out) == Append(out, fmt(action))

\* Communicator::read_command: read_line gives an I/O error or a line (the
\* empty line at the end of the stream), which is then parsed.
read_command(io_ok, text) ==
    IF ~io_ok
    THEN [ok |-> FALSE, error |-> "read", command |-> NoCommand, line |-> NoLine]
    ELSE LET c == from_str(text)
         IN IF c = ParseError
            THEN [ok |-> FALSE, error |-> "decode", command |-> NoCommand, line |-> text]
            ELSE [ok |-> TRUE, error |-> "none", command |-> c, line |-> text]

\* An AfterRead that reads again after a failure instead of returning it.
AfterReadRetrying(r, next) ==
    /\ reads' = reads + 1
    /\ line' = r.line
    /\ IF ~r.ok
       THEN /\ pc' = pc
            /\ error' = r.error
            /\ UNCHANGED <<command, run_rounds>>
       ELSE /\ pc' = next
            /\ command' = r.command
            /\ error' = error
            /\ run_rounds' = IF r.command.tag = "RunRound" THEN run_rounds + 1 ELSE run_rounds
    /\ UNCHANGED <<world_state, pending_actions, output, flushed, callbacks, end_rounds,
                   rounds_completed, inits, first_init, died, last_call, answer>>
    /\ UNCHANGED <<stream, lock, thread_pc, taken, staged>>

\* What run_loop does with the result of a read_command: `?` returns the
\* error; otherwise the command is kept and `next` is where the loop goes.
AfterRead(r, next) ==
    /\ reads' = reads + 1
    /\ line' = r.line
    /\ IF ~r.ok
       THEN /\ pc' = "failed"
            /\ error' = r.error
            /\ UNCHANGED <<command, run_rounds>>
       ELSE /\ pc' = next
            /\ command' = r.command
            /\ error' = error
            /\ run_rounds' = IF r.command.tag = "RunRound" THEN run_rounds + 1 ELSE run_rounds
    /\ UNCHANGED <<world_state, pending_actions, output, flushed, callbacks, end_rounds,
                   rounds_completed, inits, first_init, died, last_call, answer>>
    /\ UNCHANGED <<stream, lock, thread_pc, taken, staged>>

\* An advertise_initialization that stages Initialized like any other action.
AdvertiseInitializationQueued ==
    /\ pc = "start"
    /\ pending_actions' = add_action(pending_actions, Initialized)
    /\ pc' = "loop"
    /\ UNCHANGED <<world_state, command, output, flushed, reads, error, run_rounds,
                   callbacks, end_rounds, rounds_completed, inits, first_init, died,
                   last_call, answer>>
    /\ UNCHANGED <<line, stream, lock, thread_pc, taken, staged>>

\* run_loop, line 615: advertise_initialization = flush_action(Initialized).
AdvertiseInitialization ==
    /\ pc = "start"
    /\ \E write_ok \in BOOLEAN, flush_ok \in BOOLEAN :
          /\ output' = IF write_ok THEN send_action(Initialized, output) ELSE output
          /\ flushed' = IF write_ok /\ flush_ok THEN Len(output') ELSE flushed
          /\ pc' = IF write_ok /\ flush_ok THEN "loop" ELSE "failed"
          /\ error' = IF ~write_ok THEN "write" ELSE IF ~flush_ok THEN "flush" ELSE error
    /\ UNCHANGED <<world_state, command, pending_actions, reads, run_rounds, callbacks,
                   end_rounds, rounds_completed, inits, first_init, died, last_call,
                   answer>>
    /\ UNCHANGED <<line, stream, lock, thread_pc, taken, staged>>

\* A loop that does not look for EndGame at line 618.
LoopNextNoEndGame(c) == IF c.tag = "RunRound" THEN "round_ready" ELSE "apply"

\* Where the loop goes with the command read at line 617 (lines 618-621).
LoopNext(c) ==
    IF c.tag = "EndGame" THEN "ended"
    ELSE IF c.tag = "RunRound" THEN "round_ready"
    ELSE "apply"

\* run_loop, lines 617-621: the read at the top of the loop.
ReadCommandLoop ==
    /\ pc = "loop"
    /\ reads < MaxReads
    /\ \E io_ok \in BOOLEAN, text \in InputLines :
          LET r == read_command(io_ok, text)
          IN AfterRead(r, LoopNext(r.command))

\* The while loop with a RUN_ROUND that is applied like any other command.
InnerNextSkipsRound(c) == "apply"

\* Where the loop goes with the command read at line 623 (line 621).
InnerNext(c) == IF c.tag = "RunRound" THEN "round_ready" ELSE "apply"

\* run_loop, line 623: the read inside `while command != RunRound`.
ReadCommandInner ==
    /\ pc = "inner"
    /\ reads < MaxReads
    /\ \E io_ok \in BOOLEAN, text \in InputLines :
          LET r == read_command(io_ok, text)
          IN AfterRead(r, InnerNext(r.command))

\* run_loop, line 622: world_state = apply_command(command, world_state).
ApplyCommand ==
    /\ pc = "apply"
    /\ IF apply_command_panics(command, world_state)
       THEN /\ pc' = "panicked"
            /\ UNCHANGED <<world_state, inits, first_init, died>>
       ELSE /\ pc' = "inner"
            /\ world_state' = apply_command(command, world_state)
            /\ inits' = IF command.tag = "Initialize" THEN inits + 1 ELSE inits
            /\ first_init' =
                  IF command.tag = "Initialize" /\ inits = 0
                  THEN WorldProperties(command.width, command.height, command.team_id,
                                       command.my_column, command.enemy_column)
                  ELSE first_init
            /\ died' =
                  IF command.tag = "Die" /\ command.cell_id \in DOMAIN world_state.cells
                  THEN died \cup {command.cell_id}
                  ELSE died
    /\ UNCHANGED <<command, pending_actions, output, flushed, reads, error, run_rounds,
                   callbacks, end_rounds, rounds_completed, last_call, answer>>
    /\ UNCHANGED <<line, stream, lock, thread_pc, taken, staged>>

\* run_loop, line 625: bot.run_round(&world_state) is entered.
BotRunRound ==
    /\ pc = "round_ready"
    /\ pc' = "callback"
    /\ callbacks' = callbacks + 1
    /\ UNCHANGED <<world_state, command, pending_actions, output, flushed, reads, error,
                   run_rounds, end_rounds, rounds_completed, inits, first_init, died,
                   last_call, answer>>
    /\ UNCHANGED <<line, stream, lock, thread_pc, taken, staged>>

\* The pending queue a Cell method leaves, called on a cell of the snapshot.
Staged(call, ws, pending) ==
    LET cell == ws.cells[call.cell_id]
    IN CASE call.op = "move_to_position" -> move_to_position(cell, call.position, pending)
         [] call.op = "move_in_direction" -> move_in_direction(cell, call.direction, pending)
         [] call.op = "attack_position" -> attack_position(cell, call.position, pending)
         [] call.op = "attack_cell" -> attack_cell(cell, ws.cells[call.other], pending)
         [] call.op = "explode" -> explode(cell, pending)
         [] OTHER -> pending

\* What a can_* method returns.
Answered(call, ws) ==
    LET cell == ws.cells[call.cell_id]
    IN CASE call.op = "can_move_to_position" -> can_move_to_position(cell, call.position)
         [] call.op = "can_move_in_direction" -> can_move_in_direction(cell, call.direction)
         [] call.op = "can_attack_position" -> can_attack_position(cell, call.position)
         [] call.op = "can_attack_cell" -> can_attack_cell(cell, ws.cells[call.other])
         [] OTHER -> FALSE

\* A Cell method that also writes what it stages.
CellCallWriteThrough(call) ==
    /\ pc = "callback"
    /\ Len(pending_actions) < MaxPending
    /\ pending_actions' = Staged(call, world_state, pending_actions)
    /\ output' = output \o
          [i \in 1 .. Len(pending_actions') - Len(pending_actions) |->
              fmt(pending_actions'[Len(pending_actions) + i])]
    /\ answer' = Answered(call, world_state)
    /\ last_call' = call
    /\ UNCHANGED <<pc, world_state, command, flushed, reads, error, run_rounds,
                   callbacks, end_rounds, rounds_completed, inits, first_init, died>>
    /\ UNCHANGED <<line, stream, lock, thread_pc, taken, staged>>

\* The callback calls a method of a cell of the snapshot it was given.
CellCall(call) ==
    /\ pc = "callback"
    /\ Len(pending_actions) < MaxPending
    /\ pending_actions' = Staged(call, world_state, pending_actions)
    /\ answer' = Answered(call, world_state)
    /\ last_call' = call
    /\ UNCHANGED <<pc, world_state, command, output, flushed, reads, error, run_rounds,
                   callbacks, end_rounds, rounds_completed, inits, first_init, died>>
    /\ UNCHANGED <<line, stream, lock, thread_pc, taken, staged>>

\* The calls of the bots run_loop is run with.
BotCalls(ws) ==
    UNION { { Call("explode", k, Position(0, 0), "North", 0),
              Call("move_in_direction", k, Position(0, 0), "East", 0),
              Call("attack_position", k, Position(1, 1), "North", 0) }
            : k \in DOMAIN ws.cells }

BotCall == \E call \in BotCalls(world_state) : CellCall(call)

\* bot.run_round returns; run_loop goes on to line 626.
CallbackReturn ==
    /\ pc = "callback"
    /\ pc' = "end_round"
    /\ last_call' = NoCall
    /\ answer' = FALSE
    /\ UNCHANGED <<world_state, command, pending_actions, output, flushed, reads, error,
                   run_rounds, callbacks, end_rounds, rounds_completed, inits,
                   first_init, died>>
    /\ UNCHANGED <<line, stream, lock, thread_pc, taken, staged>>

\* An end_round that sends the queue last staged first.
end_round_actions_lifo(pending) ==
    Append([i \in 1 .. Len(pending) |-> pending[Len(pending) + 1 - i]], RoundEnd)

\* Communicator::end_round, lines 180-181: the queue taken, RoundEnd pushed.
end_round_actions(pending) == Append(pending, RoundEnd)

\* The lines of the first k of these actions (lines 182-184, k sends done).
Sent(actions, k) == [i \in 1 .. k |-> fmt(actions[i])]

\* run_loop, line 626: end_round.  sent is the number of send_action calls
\* that succeed before one fails (all of them) and flush_ok the flush.
EndRound ==
    /\ pc = "end_round"
    /\ LET actions == end_round_actions(pending_actions)
       IN \E sent \in 0 .. Len(actions), flush_ok \in BOOLEAN :
            LET all == sent = Len(actions)
            IN /\ pending_actions' = <<>>
               /\ output' = output \o Sent(actions, sent)
               /\ flushed' = IF all /\ flush_ok THEN Len(output') ELSE flushed
               /\ pc' = IF all /\ flush_ok THEN "loop" ELSE "failed"
               /\ error' = IF ~all THEN "write" ELSE IF ~flush_ok THEN "flush" ELSE error
               /\ rounds_completed' =
                     IF all /\ flush_ok THEN rounds_completed + 1 ELSE rounds_completed
    /\ end_rounds' = end_rounds + 1
    /\ UNCHANGED <<world_state, command, reads, run_rounds, callbacks, inits, first_init,
                   died, last_call, answer>>
    /\ UNCHANGED <<line, stream, lock, thread_pc, taken, staged>>

Next ==
    \/ AdvertiseInitialization
    \/ ReadCommandLoop
    \/ ReadCommandInner
    \/ ApplyCommand
    \/ BotRunRound
    \/ BotCall
    \/ CallbackReturn
    \/ EndRound

Spec == Init /\ [][Next]_vars

---------------------------------------------------------------------------
(* The Cell methods on their own: one callback, entered after the engine    *)
(* sent INITIALIZE, two SPAWNs and RUN_ROUND, calling the methods of the    *)
(* two cells with positions all over the range of i32.                      *)

CellInitializeLines ==
    { Line("INITIALIZE", <<Num(3), Num(3), Num(1), Num(0), Num(2)>>),
      Line("INITIALIZE", <<Num(I32Half), Num(3), Num(1), Num(0), Num(2)>>),
      Line("INITIALIZE", <<Num(3), Num(U32Max), Num(1), Num(0), Num(2)>>),
      Line("INITIALIZE", <<Num(I32Max), Num(3), Num(1), Num(0), Num(2)>>) }

CellSpawnLines ==
    { Line("SPAWN", <<Num(1), Num(0), Num(0), Num(100), Num(1), Num(0)>>),
      Line("SPAWN", <<Num(1), Num(2), Num(2), Num(100), Num(1), Num(0)>>),
      Line("SPAWN", <<Num(1), Num(U32Max), Num(1), Num(100), Num(1), Num(0)>>),
      Line("SPAWN", <<Num(1), Num(I32Half), Num(0), Num(100), Num(1), Num(0)>>) }

CellOtherSpawnLine == Line("SPAWN", <<Num(2), Num(1), Num(1), Num(100), Num(2), Num(0)>>)

\* The snapshot run_loop holds after reading these three lines.
SnapshotAfter(l1, l2, l3) ==
    apply_command(from_str(l3),
        apply_command(from_str(l2),
            apply_command(from_str(l1), DefaultWorldState)))

\* The positions the callback asks the can_* methods about: the 3 x 3 board,
\* squares just off it, and the ends of the range of i32.
QueryPositions ==
    { Position(x, y) : x \in {0, 1, 2}, y \in {0, 1, 2} }
        \cup { Position(-1, 0), Position(0, -1), Position(3, 2), Position(2, 3),
               Position(I32Max, 1), Position(I32Max - 1, 0), Position(I32Min, 0),
               Position(0, I32Min) }

\* The positions the callback passes to the methods that stage an action.
IntentPositions ==
    { Position(1, 0), Position(1, 1), Position(0, 0), Position(-1, 0),
      Position(3, 2), Position(0, 1) }

InitCell ==
    /\ pc = "callback"
    /\ \E l1 \in CellInitializeLines, l2 \in CellSpawnLines :
          /\ world_state = SnapshotAfter(l1, l2, CellOtherSpawnLine)
          /\ first_init = apply_command(from_str(l1), DefaultWorldState).properties
    /\ command = from_str(Line("RUN_ROUND", <<>>))
    /\ pending_actions = <<>>
    /\ output = send_action(Initialized, <<>>)
    /\ flushed = 1
    /\ reads = 4
    /\ error = "none"
    /\ run_rounds = 1
    /\ callbacks = 1
    /\ end_rounds = 0
    /\ rounds_completed = 0
    /\ inits = 1
    /\ died = {}
    /\ last_call = NoCall
    /\ answer = FALSE
    /\ line = Line("RUN_ROUND", <<>>)
    /\ stream = <<>>
    /\ NoThreads

CallMoveToPosition ==
    \E k \in DOMAIN world_state.cells, q \in IntentPositions :
        CellCall(Call("move_to_position", k, q, "North", 0))

CallMoveInDirection ==
    \E k \in DOMAIN world_state.cells, d \in Direction :
        CellCall(Call("move_in_direction", k, Position(0, 0), d, 0))

CallAttackPosition ==
    \E k \in DOMAIN world_state.cells, q \in IntentPositions :
        CellCall(Call("attack_position", k, q, "North", 0))

CallAttackCell ==
    \E k \in DOMAIN world_state.cells, o \in DOMAIN world_state.cells :
        CellCall(Call("attack_cell", k, Position(0, 0), "North", o))

CallExplode ==
    \E k \in DOMAIN world_state.cells :
        CellCall(Call("explode", k, Position(0, 0), "North", 0))

CallCanMoveToPosition ==
    \E k \in DOMAIN world_state.cells, q \in QueryPositions :
        CellCall(Call("can_move_to_position", k, q, "North", 0))

CallCanMoveInDirection ==
    \E k \in DOMAIN world_state.cells, d \in Direction :
        CellCall(Call("can_move_in_direction", k, Position(0, 0), d, 0))

CallCanAttackPosition ==
    \E k \in DOMAIN world_state.cells, q \in QueryPositions :
        CellCall(Call("can_attack_position", k, q, "North", 0))

CallCanAttackCell ==
    \E k \in DOMAIN world_state.cells, o \in DOMAIN world_state.cells :
        CellCall(Call("can_attack_cell", k, Position(0, 0), "North", o))

NextCell ==
    \/ CallMoveToPosition
    \/ CallMoveInDirection
    \/ CallAttackPosition
    \/ CallAttackCell
    \/ CallExplode

SpecCell == InitCell /\ [][NextCell]_vars

NextQuery ==
    \/ CallCanMoveToPosition
    \/ CallCanMoveInDirection
    \/ CallCanAttackPosition
    \/ CallCanAttackCell

SpecQuery == InitCell /\ [][NextQuery]_vars

---------------------------------------------------------------------------
(* run_loop with the bots that move: the callback calls move_in_direction   *)
(* and can_move_in_direction on the cells of its snapshot.                  *)

NextMove ==
    \/ AdvertiseInitialization
    \/ ReadCommandLoop
    \/ ReadCommandInner
    \/ ApplyCommand
    \/ BotRunRound
    \/ CallMoveInDirection
    \/ CallCanMoveInDirection
    \/ CallbackReturn
    \/ EndRound

SpecMove == Init /\ [][NextMove]_vars

---------------------------------------------------------------------------
(* decode on its own: run_loop reads its first line, any line made of a     *)
(* keyword and up to MaxArgs tokens.                                        *)

\* First tokens: the keywords of the grammar, an unknown keyword, a keyword
\* in lower case, and the empty token of the empty line.
DecodeKeywords ==
    { "INITIALIZE", "SPAWN", "DIE", "SET_CELL_PROPERTIES", "CONFLICTING_ACTIONS",
      "RUN_ROUND", "END_GAME", "FOO", "die", "" }

\* Tokens after the first: numbers in the range of u32, a number above it,
\* and a token that is not a number.
DecodeTokens == { Num(1), Num(U32Max), Num(U32Max + 1), Txt("x") }

DecodeLines ==
    { Line(kw, args) : kw \in DecodeKeywords,
                       args \in UNION { [1 .. k -> DecodeTokens] : k \in 0 .. MaxArgs } }

\* run_loop, line 617, on any of these lines.
ReadCommandDecode ==
    /\ pc = "loop"
    /\ reads < MaxReads
    /\ \E io_ok \in BOOLEAN, text \in DecodeLines :
          LET r == read_command(io_ok, text)
          IN AfterRead(r, LoopNext(r.command))

NextDecode ==
    \/ AdvertiseInitialization
    \/ ReadCommandDecode

SpecDecode == Init /\ [][NextDecode]_vars

---------------------------------------------------------------------------
(* The Communicator shared by threads: two threads stage actions            *)
(* (add_action), one calls end_round, one calls flush_action, each call     *)
(* taking the Mutex of `details` for as long as the code holds its guard.   *)

\* The cell whose methods a staging thread calls.
StagerCell(t) == IF t = "s1" THEN 1 ELSE 2

\* What the threads leave alone: the locals of run_loop.
run_loop_locals ==
    <<pc, world_state, command, reads, run_rounds, callbacks, inits, first_init, died,
      last_call, answer, line, stream>>

InitThreads ==
    /\ pc = "threads"
    /\ world_state = DefaultWorldState
    /\ command = NoCommand
    /\ pending_actions = <<>>
    /\ output = <<>>
    /\ flushed = 0
    /\ reads = 0
    /\ error = "none"
    /\ run_rounds = 0
    /\ callbacks = 0
    /\ end_rounds = 0
    /\ rounds_completed = 0
    /\ inits = 0
    /\ first_init = DefaultWorldProperties
    /\ died = {}
    /\ last_call = NoCall
    /\ answer = FALSE
    /\ line = NoLine
    /\ stream = <<>>
    /\ NoThreads

\* The first failure that any of the threads was returned.
first_error(e) == IF error = "none" THEN e ELSE error

\* A lock() that does not wait for the Mutex to be free.
lock_details_no_wait(t) == lock' = t

\* self.details.lock().unwrap(): the thread waits until the Mutex is free.
lock_details(t) == lock = "none" /\ lock' = t

\* The MutexGuard is dropped.
unlock_details == lock' = "none"

\* add_action, line 154: the lock is taken.
StagerLock(t) ==
    /\ pc = "threads"
    /\ thread_pc[t] = "idle"
    /\ staged[t] < MaxStaged
    /\ lock_details(t)
    /\ thread_pc' = [thread_pc EXCEPT ![t] = "push"]
    /\ UNCHANGED <<pending_actions, output, flushed, error, end_rounds,
                   rounds_completed, taken, staged>>
    /\ UNCHANGED run_loop_locals

\* add_action, line 154: the push, and the guard dropped.
StagerPush(t) ==
    /\ thread_pc[t] = "push"
    /\ pending_actions' =
          add_action(pending_actions, Move(StagerCell(t), staged[t] + 1, 0))
    /\ staged' = [staged EXCEPT ![t] = @ + 1]
    /\ unlock_details
    /\ thread_pc' = [thread_pc EXCEPT ![t] = "idle"]
    /\ UNCHANGED <<output, flushed, error, end_rounds, rounds_completed, taken>>
    /\ UNCHANGED run_loop_locals

\* end_round, line 179: the lock is taken.
EnderLock ==
    /\ pc = "threads"
    /\ thread_pc["ender"] = "idle"
    /\ end_rounds < MaxEndRounds
    /\ lock_details("ender")
    /\ thread_pc' = [thread_pc EXCEPT !["ender"] = "take"]
    /\ UNCHANGED <<pending_actions, output, flushed, error, end_rounds,
                   rounds_completed, taken, staged>>
    /\ UNCHANGED run_loop_locals

\* end_round, lines 180-181: the queue is taken and RoundEnd pushed.
EnderTake ==
    /\ thread_pc["ender"] = "take"
    /\ taken' = end_round_actions(pending_actions)
    /\ pending_actions' = <<>>
    /\ thread_pc' = [thread_pc EXCEPT !["ender"] = "send"]
    /\ UNCHANGED <<output, flushed, error, end_rounds, rounds_completed, lock, staged>>
    /\ UNCHANGED run_loop_locals

\* end_round, lines 182-184: one send_action; `?` returns its failure, which
\* drops what was left to send and the guard.
EnderSend ==
    /\ thread_pc["ender"] = "send"
    /\ taken # <<>>
    /\ \E write_ok \in BOOLEAN :
          IF write_ok
          THEN /\ output' = send_action(Head(taken), output)
               /\ taken' = Tail(taken)
               /\ UNCHANGED <<error, end_rounds, lock, thread_pc>>
          ELSE /\ error' = first_error("write")
               /\ taken' = <<>>
               /\ end_rounds' = end_rounds + 1
               /\ unlock_details
               /\ thread_pc' = [thread_pc EXCEPT !["ender"] = "idle"]
               /\ UNCHANGED output
    /\ UNCHANGED <<pending_actions, flushed, rounds_completed, staged>>
    /\ UNCHANGED run_loop_locals

\* end_round, lines 185-186: the flush, and the guard dropped.
EnderFlush ==
    /\ thread_pc["ender"] = "send"
    /\ taken = <<>>
    /\ \E flush_ok \in BOOLEAN :
          /\ flushed' = IF flush_ok THEN Len(output) ELSE flushed
          /\ error' = IF flush_ok THEN error ELSE first_error("flush")
          /\ rounds_completed' = IF flush_ok THEN rounds_completed + 1 ELSE rounds_completed
    /\ end_rounds' = end_rounds + 1
    /\ unlock_details
    /\ thread_pc' = [thread_pc EXCEPT !["ender"] = "idle"]
    /\ UNCHANGED <<pending_actions, output, taken, staged>>
    /\ UNCHANGED run_loop_locals

\* flush_action, line 172: the lock is taken.
FlusherLock ==
    /\ pc = "threads"
    /\ thread_pc["flusher"] = "idle"
    /\ lock_details("flusher")
    /\ thread_pc' = [thread_pc EXCEPT !["flusher"] = "send"]
    /\ UNCHANGED <<pending_actions, output, flushed, error, end_rounds,
                   rounds_completed, taken, staged>>
    /\ UNCHANGED run_loop_locals

\* flush_action, line 173: send_action(Initialized).
FlusherSend ==
    /\ thread_pc["flusher"] = "send"
    /\ \E write_ok \in BOOLEAN :
          IF write_ok
          THEN /\ output' = send_action(Initialized, output)
               /\ thread_pc' = [thread_pc EXCEPT !["flusher"] = "flush"]
               /\ UNCHANGED <<error, lock>>
          ELSE /\ error' = first_error("write")
               /\ unlock_details
               /\ thread_pc' = [thread_pc EXCEPT !["flusher"] = "done"]
               /\ UNCHANGED output
    /\ UNCHANGED <<pending_actions, flushed, end_rounds, rounds_completed, taken, staged>>
    /\ UNCHANGED run_loop_locals

\* flush_action, lines 174-175: the flush, and the guard dropped.
FlusherFlush ==
    /\ thread_pc["flusher"] = "flush"
    /\ \E flush_ok \in BOOLEAN :
          /\ flushed' = IF flush_ok THEN Len(output) ELSE flushed
          /\ error' = IF flush_ok THEN error ELSE first_error("flush")
    /\ unlock_details
    /\ thread_pc' = [thread_pc EXCEPT !["flusher"] = "done"]
    /\ UNCHANGED <<pending_actions, output, end_rounds, rounds_completed, taken, staged>>
    /\ UNCHANGED run_loop_locals

StagerStep == \E t \in Stagers : StagerLock(t) \/ StagerPush(t)

NextThreads ==
    \/ StagerStep
    \/ EnderLock
    \/ EnderTake
    \/ EnderSend
    \/ EnderFlush
    \/ FlusherLock
    \/ FlusherSend
    \/ FlusherFlush

SpecThreads == InitThreads /\ [][NextThreads]_vars

---------------------------------------------------------------------------
(* run_loop on an input given ahead: a finite stream of lines, read one     *)
(* after the other, after which read_line finds the end of the stream.      *)

StreamLines ==
    { Line("INITIALIZE", <<Num(5), Num(5), Num(1), Num(0), Num(4)>>),
      Line("SPAWN", <<Num(1), Num(0), Num(2), Num(100), Num(1), Num(0)>>),
      Line("DIE", <<Num(1)>>),
      Line("SET_CELL_PROPERTIES", <<Num(1), Num(1), Num(2), Num(90), Num(1)>>),
      Line("RUN_ROUND", <<>>),
      Line("END_GAME", <<>>) }

Streams == UNION { [1 .. n -> StreamLines] : n \in 1 .. MaxReads }

\* read_line on the stream: the next line, or the empty line at its end.
NextLine == IF reads < Len(stream) THEN stream[reads + 1] ELSE NoLine

InitStream ==
    /\ pc = "start"
    /\ world_state = DefaultWorldState
    /\ command = NoCommand
    /\ pending_actions = <<>>
    /\ output = <<>>
    /\ flushed = 0
    /\ reads = 0
    /\ error = "none"
    /\ run_rounds = 0
    /\ callbacks = 0
    /\ end_rounds = 0
    /\ rounds_completed = 0
    /\ inits = 0
    /\ first_init = DefaultWorldProperties
    /\ died = {}
    /\ last_call = NoCall
    /\ answer = FALSE
    /\ line = NoLine
    /\ stream \in Streams
    /\ NoThreads

\* run_loop, lines 617-621, reading the stream.
ReadStreamLoop ==
    /\ pc = "loop"
    /\ \E io_ok \in BOOLEAN :
          LET r == read_command(io_ok, NextLine)
          IN AfterRead(r, LoopNext(r.command))

\* run_loop, line 623, reading the stream.
ReadStreamInner ==
    /\ pc = "inner"
    /\ \E io_ok \in BOOLEAN :
          LET r == read_command(io_ok, NextLine)
          IN AfterRead(r, InnerNext(r.command))

NextStream ==
    \/ AdvertiseInitialization
    \/ ReadStreamLoop
    \/ ReadStreamInner
    \/ ApplyCommand
    \/ BotRunRound
    \/ BotCall
    \/ CallbackReturn
    \/ EndRound

\* Every step of run_loop that can be taken is taken in the end: a read
\* returns, the callback returns.  Nothing makes the callback call a method.
FairStream ==
    /\ WF_vars(AdvertiseInitialization)
    /\ WF_vars(ReadStreamLoop)
    /\ WF_vars(ReadStreamInner)
    /\ WF_vars(ApplyCommand)
    /\ WF_vars(BotRunRound)
    /\ WF_vars(CallbackReturn)
    /\ WF_vars(EndRound)

SpecStream == InitStream /\ [][NextStream]_vars /\ FairStream

---------------------------------------------------------------------------
(* One round from the callback to the end of end_round: the callback calls  *)
(* the staging methods of the cells of its snapshot, returns, and           *)
(* end_round writes what was staged.  The snapshot is one run_loop holds    *)
(* after INITIALIZE and two SPAWNs, or after two SPAWNs and no INITIALIZE.   *)

\* The SPAWN lines of the first cell: those above, and one that puts it one
\* square to the right of x = i32::MIN.
WriteSpawnLines ==
    CellSpawnLines \cup
        { Line("SPAWN", <<Num(1), Num(I32Half + 1), Num(0), Num(100), Num(1), Num(0)>>) }

\* The snapshot run_loop holds when RUN_ROUND comes after two SPAWNs only.
SnapshotWithoutInitialize(l2, l3) ==
    apply_command(from_str(l3), apply_command(from_str(l2), DefaultWorldState))

InitWrite ==
    /\ pc = "callback"
    /\ \/ \E l1 \in CellInitializeLines, l2 \in WriteSpawnLines :
             /\ world_state = SnapshotAfter(l1, l2, CellOtherSpawnLine)
             /\ first_init = apply_command(from_str(l1), DefaultWorldState).properties
             /\ inits = 1
             /\ reads = 4
       \/ \E l2 \in WriteSpawnLines :
             /\ world_state = SnapshotWithoutInitialize(l2, CellOtherSpawnLine)
             /\ first_init = DefaultWorldProperties
             /\ inits = 0
             /\ reads = 3
    /\ command = from_str(Line("RUN_ROUND", <<>>))
    /\ pending_actions = <<>>
    /\ output = send_action(Initialized, <<>>)
    /\ flushed = 1
    /\ error = "none"
    /\ run_rounds = 1
    /\ callbacks = 1
    /\ end_rounds = 0
    /\ rounds_completed = 0
    /\ died = {}
    /\ last_call = NoCall
    /\ answer = FALSE
    /\ line = Line("RUN_ROUND", <<>>)
    /\ stream = <<>>
    /\ NoThreads

NextWrite ==
    \/ CallMoveToPosition
    \/ CallMoveInDirection
    \/ CallAttackPosition
    \/ CallAttackCell
    \/ CallExplode
    \/ CallbackReturn
    \/ EndRound

SpecWrite == InitWrite /\ [][NextWrite]_vars

---------------------------------------------------------------------------
(* Properties *)

\* How many of the lines of out are ROUND_END.
NumRoundEnd(out) ==
    Cardinality({i \in DOMAIN out : out[i] = Line("ROUND_END", <<>>)})

\* The lines of a queue of actions, in the queue's order.
LinesOf(queue) == [i \in 1 .. Len(queue) |-> fmt(queue[i])]

\* C1: INITIALIZED is the first line of the output and no other line is
\* INITIALIZED (it is written once); it is in the writer and flushed before
\* any command is read and whenever the handshake has returned Ok; it never
\* passes through the pending queue.
C1_HandshakeFirst ==
    /\ \A i \in DOMAIN output : (output[i] = Line("INITIALIZED", <<>>)) <=> (i = 1)
    /\ (reads > 0 => Len(output) >= 1 /\ flushed >= 1)
    /\ (pc \notin {"start", "failed"} => Len(output) >= 1 /\ flushed >= 1)
    /\ \A i \in DOMAIN pending_actions : pending_actions[i] # Initialized

\* A run that wrote INITIALIZED, read commands, ran a round and ended.
C1_Witness ==
    /\ pc = "ended"
    /\ reads >= 2
    /\ Len(output) >= 2
    /\ output[1] = Line("INITIALIZED", <<>>)

\* C2, counters: every RUN_ROUND read is followed by one callback and then one
\* end_round before the next read, and while run_loop has not failed the
\* output holds one ROUND_END per round completed.
C2_Counts ==
    /\ pc \in {"start", "loop", "apply", "inner", "ended", "panicked"} =>
          /\ callbacks = run_rounds
          /\ end_rounds = run_rounds
          /\ rounds_completed = run_rounds
    /\ pc = "round_ready" =>
          /\ callbacks = run_rounds - 1
          /\ end_rounds = callbacks
          /\ rounds_completed = callbacks
    /\ pc \in {"callback", "end_round"} =>
          /\ callbacks = run_rounds
          /\ end_rounds = callbacks - 1
          /\ rounds_completed = end_rounds
    /\ pc # "failed" => NumRoundEnd(output) = rounds_completed
    /\ pc = "failed" =>
          /\ rounds_completed <= NumRoundEnd(output)
          /\ NumRoundEnd(output) <= end_rounds
          /\ end_rounds <= callbacks
          /\ callbacks <= run_rounds

\* C2, steps: staging writes nothing; a command is read only when every round
\* read so far has completed; the lines an end_round that returns Ok adds are
\* the lines of the actions staged, then one ROUND_END.
C2_Step ==
    /\ (pc = "callback" => output' = output /\ flushed' = flushed)
    /\ (reads' # reads => rounds_completed = run_rounds /\ callbacks = run_rounds)
    /\ (pc = "end_round" /\ pc' = "loop" =>
          /\ Len(output') = Len(output) + Len(pending_actions) + 1
          /\ SubSeq(output', 1, Len(output)) = output
          /\ SubSeq(output', Len(output) + 1, Len(output') - 1) = LinesOf(pending_actions)
          /\ output'[Len(output')] = Line("ROUND_END", <<>>)
          /\ flushed' = Len(output'))

\* C2: the shape of a round.
C2_RoundShape == [] C2_Counts /\ [][C2_Step]_vars

\* Two rounds completed, the first with actions staged.
C2_Witness ==
    /\ pc = "loop"
    /\ rounds_completed = 2
    /\ run_rounds = 2
    /\ Len(output) >= 4
    /\ NumRoundEnd(output) = 2

\* C3, states: the pending queue is empty except inside a callback and up to
\* the end_round that follows it: a callback always begins with an empty queue.
C3_EmptyBetweenRounds ==
    pc \notin {"callback", "end_round"} => pending_actions = <<>>

\* C3, steps: end_round empties the queue whatever it holds, and writes the
\* queue's actions in staging order and then ROUND_END: all of these lines
\* when it returns Ok, and the first ones of them, nothing else, when a write
\* fails.
C3_Step ==
    pc = "end_round" =>
        /\ pending_actions' = <<>>
        /\ \E k \in 0 .. Len(pending_actions) + 1 :
              /\ Len(output') = Len(output) + k
              /\ \A i \in 1 .. Len(output) : output'[i] = output[i]
              /\ \A i \in 1 .. k :
                    output'[Len(output) + i] =
                        IF i <= Len(pending_actions)
                        THEN fmt(pending_actions[i])
                        ELSE Line("ROUND_END", <<>>)
              /\ (pc' = "loop" => k = Len(pending_actions) + 1)

\* C3: end_round drains the queue first in, first out.
C3_EndRoundFifo == [] C3_EmptyBetweenRounds /\ [][C3_Step]_vars

\* A round in which EXPLODE was staged before MOVE, written in that order.
C3_Witness ==
    /\ pc = "loop"
    /\ pending_actions = <<>>
    /\ output = << Line("INITIALIZED", <<>>), Line("EXPLODE", <<1>>),
                   Line("MOVE", <<1, 1, 2>>), Line("ROUND_END", <<>>) >>

\* C4 as stated: once END_GAME has been read, after state commands or not,
\* no further command is read, no callback is invoked and no line is written.
C4_EndGameAlwaysEnds ==
    [][command.tag = "EndGame" =>
          /\ reads' = reads
          /\ callbacks' = callbacks
          /\ output' = output]_vars

\* C4, steps: a read that decodes END_GAME ends the loop exactly when it is
\* the read at the top of the loop; nothing happens once the loop has ended.
C4_Step ==
    /\ (reads' = reads + 1 /\ pc' # "failed" /\ command'.tag = "EndGame" =>
          ((pc' = "ended") <=> (pc = "loop")))
    /\ (pc' = "ended" =>
          /\ pc = "loop"
          /\ command'.tag = "EndGame"
          /\ output' = output
          /\ callbacks' = callbacks
          /\ world_state' = world_state)
    /\ pc # "ended"

\* C4 amended: END_GAME ends the loop when it is the first command of the
\* run or the first command read after a round; read after a state command
\* it is applied (no change) and the loop reads on.
C4_EndGameAtLoopTop ==
    /\ [](pc = "ended" => error = "none" /\ pending_actions = <<>>
                          /\ rounds_completed = run_rounds)
    /\ [][C4_Step]_vars

\* END_GAME read right after a round, after an INITIALIZE earlier on.
C4_Witness ==
    /\ pc = "ended"
    /\ rounds_completed = 1
    /\ inits = 1

\* C5, states: run_loop has returned Err exactly when an operation failed.
C5_FailedIffError == (error # "none") <=> (pc = "failed")

\* C5, steps: nothing happens after the failure; the failing step reads or
\* writes at most what it had done before failing: it applies no command,
\* invokes no callback and a failed write leaves no ROUND_END.
C5_Step ==
    /\ pc # "failed"
    /\ (pc' = "failed" =>
          /\ world_state' = world_state
          /\ callbacks' = callbacks
          /\ command' = command
          /\ pending_actions' = <<>>
          /\ (error' \in {"read", "decode"} => output' = output /\ reads' = reads + 1)
          /\ (error' = "write" => NumRoundEnd(output') = NumRoundEnd(output)
                                   /\ flushed' = flushed /\ reads' = reads)
          /\ (error' = "flush" => flushed' = flushed /\ reads' = reads))

\* C5: a failure of read_command, of a write or of a flush ends run_loop at
\* once.
C5_FailurePropagates == [] C5_FailedIffError /\ [][C5_Step]_vars

\* A write that failed in end_round after one action was sent.
C5_Witness ==
    /\ pc = "failed"
    /\ error = "write"
    /\ end_rounds = 1
    /\ Len(output) = 2
    /\ NumRoundEnd(output) = 0

\* C6 as stated: applying a DIE whose cell_id is not in the snapshot gives no
\* snapshot: the loop stops there with a failure.
C6_DieAbsentIsFatal ==
    [][pc = "apply" /\ command.tag = "Die"
          /\ command.cell_id \notin DOMAIN world_state.cells
       => pc' \in {"panicked", "failed"}]_vars

\* C7, steps: applying DIE of an id of the snapshot gives a snapshot where
\* the id is in neither my_cells nor enemy_cells and every other cell and the
\* properties are as before; applying SET_CELL_PROPERTIES of an id that is not
\* in the snapshot panics, gives no snapshot, and nothing runs afterwards.
C7_Step ==
    /\ (pc = "apply" /\ command.tag = "Die"
          /\ command.cell_id \in DOMAIN world_state.cells =>
            /\ pc' = "inner"
            /\ \A c \in my_cells(world_state') \cup enemy_cells(world_state') :
                  c.cell_id # command.cell_id
            /\ DOMAIN world_state'.cells = DOMAIN world_state.cells \ {command.cell_id}
            /\ \A k \in DOMAIN world_state'.cells :
                  world_state'.cells[k] = world_state.cells[k]
            /\ world_state'.properties = world_state.properties)
    /\ (pc = "apply" /\ command.tag = "SetCellProperties"
          /\ command.cell_id \notin DOMAIN world_state.cells =>
            /\ pc' = "panicked"
            /\ world_state' = world_state)
    /\ pc # "panicked"

\* C7: DIE removes the cell whatever its team; SET_CELL_PROPERTIES of an
\* absent id is fatal.
C7_DieRemovesSetFails == [][C7_Step]_vars

\* SET_CELL_PROPERTIES of a cell that a DIE removed, after an INITIALIZE.
C7_Witness ==
    /\ pc = "panicked"
    /\ command.tag = "SetCellProperties"
    /\ command.cell_id \in died
    /\ command.cell_id \notin DOMAIN world_state.cells

\* C8 as stated: after the first INITIALIZE the properties are those of the
\* first INITIALIZE, whatever is read afterwards.
C8_FirstInitializeForever == inits >= 1 => world_state.properties = first_init

\* C8, steps: applying an INITIALIZE makes the five getters return its
\* values; no other step changes the properties.
C8_Step ==
    IF pc = "apply" /\ command.tag = "Initialize"
    THEN /\ width(world_state') = command.width
         /\ height(world_state') = command.height
         /\ my_team_id(world_state') = command.team_id
         /\ my_starting_column(world_state') = command.my_column
         /\ enemy_starting_column(world_state') = command.enemy_column
    ELSE world_state'.properties = world_state.properties

\* C8 amended: the properties are those of the most recent INITIALIZE
\* applied: of the first one while it is the only one, and only an INITIALIZE
\* changes them.
C8_LastInitializeWins ==
    /\ [](inits = 1 => world_state.properties = first_init)
    /\ [](inits = 0 => world_state.properties = DefaultWorldProperties)
    /\ [][C8_Step]_vars

\* A second INITIALIZE replaced the properties of the first.
C8_Witness ==
    /\ inits = 2
    /\ world_state.properties # first_init
    /\ width(world_state) = 3
    /\ first_init.width = 5

\* The target of an intent: the position passed, the position one step away
\* in the direction passed, or the position of the cell passed.
C9_Target(call, ws) ==
    CASE call.op = "move_in_direction" ->
            translated_by_direction(ws.cells[call.cell_id].position, call.direction)
      [] call.op = "attack_cell" -> ws.cells[call.other].position
      [] OTHER -> call.position

\* The legality check of an intent on its target.
C9_Legal(call, ws) ==
    IF call.op \in {"move_to_position", "move_in_direction"}
    THEN can_move_to_position(ws.cells[call.cell_id], C9_Target(call, ws))
    ELSE can_attack_position(ws.cells[call.cell_id], C9_Target(call, ws))

\* C9, steps: the call made stages one MOVE or ATTACK with the caller's id
\* and the target's coordinates when its check passes and leaves the queue as
\* it was when the check fails; explode stages one EXPLODE with the caller's
\* id; none of them fails, writes or ends the callback.
C9_Step ==
    LET call == last_call'
        target == C9_Target(call, world_state)
    IN /\ pc' = "callback"
       /\ error' = "none"
       /\ output' = output
       /\ call.op \in {"move_to_position", "move_in_direction",
                       "attack_position", "attack_cell", "explode"}
       /\ pending_actions' =
            IF call.op = "explode"
            THEN Append(pending_actions, [tag |-> "Explode", cell_id |-> call.cell_id])
            ELSE IF C9_Legal(call, world_state)
            THEN Append(pending_actions,
                        [tag |-> IF call.op \in {"move_to_position", "move_in_direction"}
                                 THEN "Move" ELSE "Attack",
                         cell_id |-> call.cell_id, x |-> target.x, y |-> target.y])
            ELSE pending_actions

\* C9: the intents check, then stage, and drop silently.
C9_CheckThenStage == [][C9_Step]_vars

\* A MOVE staged by move_in_direction, then an attack_position on a square
\* out of reach that left the queue as it was.
C9_Witness ==
    /\ pending_actions = << Move(1, 1, 0) >>
    /\ last_call.op = "attack_position"
    /\ last_call.cell_id = 1
    /\ last_call.position = Position(3, 2)
    /\ world_state.cells[1].position = Position(0, 0)

\* q is on the board of the cell: 0 <= x < width and 0 <= y < height.
C10_InBounds(cell, q) ==
    /\ 0 <= q.x
    /\ q.x < cell.world_properties.width
    /\ 0 <= q.y
    /\ q.y < cell.world_properties.height

\* q is one of the four orthogonal neighbours of p.
C10_Neighbour(p, q) ==
    \/ q.x = p.x /\ q.y \in {p.y - 1, p.y + 1}
    \/ q.y = p.y /\ q.x \in {p.x - 1, p.x + 1}

\* C10 as stated: can_move_to_position(q) is true exactly when q is on the
\* board and an orthogonal neighbour of the cell's position.
C10_MoveIffNeighbourInBounds ==
    last_call.op = "can_move_to_position" =>
        LET cell == world_state.cells[last_call.cell_id]
        IN answer <=> (C10_InBounds(cell, last_call.position)
                        /\ C10_Neighbour(cell.position, last_call.position))

\* q differs from p by at most 1 on each axis.
C11_Reach(p, q) ==
    /\ q.x - p.x \in {-1, 0, 1}
    /\ q.y - p.y \in {-1, 0, 1}

\* C11 as stated: can_attack_position(q) is true exactly when q is on the
\* board and within 1 of the cell's position on each axis, and
\* can_attack_cell(other) is can_attack_position of other's position.
C11_AttackIffReachInBounds ==
    /\ last_call.op = "can_attack_position" =>
          LET cell == world_state.cells[last_call.cell_id]
          IN answer <=> (C10_InBounds(cell, last_call.position)
                          /\ C11_Reach(cell.position, last_call.position))
    /\ last_call.op = "can_attack_cell" =>
          LET cell == world_state.cells[last_call.cell_id]
              other == world_state.cells[last_call.other]
          IN answer <=> (C10_InBounds(cell, other.position)
                          /\ C11_Reach(cell.position, other.position))

\* The ids of a collection of cells.
IdsOf(cells) == {c.cell_id : c \in cells}

\* C12, states: my_cells and enemy_cells have no cell in common and hold, the
\* two together, every cell of the snapshot; the cells of my_cells have
\* is_enemy false and those of enemy_cells have is_enemy true.
C12_Partition ==
    /\ my_cells(world_state) \cap enemy_cells(world_state) = {}
    /\ IdsOf(my_cells(world_state)) \cap IdsOf(enemy_cells(world_state)) = {}
    /\ my_cells(world_state) \cup enemy_cells(world_state)
          = {world_state.cells[k] : k \in DOMAIN world_state.cells}
    /\ IdsOf(my_cells(world_state)) \cup IdsOf(enemy_cells(world_state))
          = DOMAIN world_state.cells
    /\ \A c \in my_cells(world_state) : ~c.is_enemy
    /\ \A c \in enemy_cells(world_state) : c.is_enemy

\* C12, steps: the cell a SPAWN adds is in my_cells only, with is_enemy
\* false, when its team_id is the snapshot's my_team_id, and in enemy_cells
\* only, with is_enemy true, otherwise.
C12_Step ==
    pc = "apply" /\ command.tag = "Spawn" =>
        LET id == command.cell_id
            mine == command.team_id = my_team_id(world_state)
        IN /\ pc' = "inner"
           /\ id \in DOMAIN world_state'.cells
           /\ (id \in IdsOf(my_cells(world_state'))) <=> mine
           /\ (id \in IdsOf(enemy_cells(world_state'))) <=> ~mine
           /\ world_state'.cells[id].is_enemy <=> ~mine

\* C12: the teams partition the cells of every snapshot.
C12_TeamPartition == [] C12_Partition /\ [][C12_Step]_vars

\* A snapshot with a cell of each team, spawned after an INITIALIZE.
C12_Witness ==
    /\ inits = 1
    /\ IdsOf(my_cells(world_state)) = {1}
    /\ IdsOf(enemy_cells(world_state)) = {2}
    /\ my_team_id(world_state) = 1

\* The unit offset of a direction: North (0,-1), South (0,+1), East (+1,0),
\* West (-1,0).
C13_Offset(direction) ==
    IF direction = "North" THEN Position(0, -1)
    ELSE IF direction = "South" THEN Position(0, 1)
    ELSE IF direction = "East" THEN Position(1, 0)
    ELSE Position(-1, 0)

\* p moved by the unit offset of a direction.
C13_Target(p, direction) ==
    Position(WrapI32(p.x + C13_Offset(direction).x),
             WrapI32(p.y + C13_Offset(direction).y))

\* C13, steps: move_in_direction stages one MOVE, to the calling cell's
\* position moved by the direction's unit offset, when can_move_to_position
\* holds of that target, and nothing otherwise; can_move_in_direction returns
\* can_move_to_position of that target and stages nothing.
C13_Step ==
    LET call == last_call'
        cell == world_state.cells[call.cell_id]
        target == C13_Target(cell.position, call.direction)
    IN /\ (pc = "callback" /\ call.op = "move_in_direction" =>
             pending_actions' =
                IF can_move_to_position(cell, target)
                THEN Append(pending_actions,
                            [tag |-> "Move", cell_id |-> call.cell_id,
                             x |-> target.x, y |-> target.y])
                ELSE pending_actions)
       /\ (pc = "callback" /\ call.op = "can_move_in_direction" =>
             /\ answer' = can_move_to_position(cell, target)
             /\ pending_actions' = pending_actions)

\* The snapshot of the scenario: INITIALIZE 5 5 1 0 4, SPAWN 1 0 2 100 1 0.
C13_Snapshot ==
    apply_command(
        from_str(Line("SPAWN", <<Num(1), Num(0), Num(2), Num(100), Num(1), Num(0)>>)),
        apply_command(
            from_str(Line("INITIALIZE", <<Num(5), Num(5), Num(1), Num(0), Num(4)>>)),
            DefaultWorldState))

\* C13, the scenario, step by step: in the first round, on that snapshot,
\* move_in_direction(East) on cell 1 as the first call leaves MOVE 1 1 2 alone
\* in the queue; end_round then makes the output INITIALIZED, MOVE 1 1 2,
\* ROUND_END; END_GAME read next ends the loop and leaves the output as it is.
C13_ScenarioStep ==
    LET first == << Line("INITIALIZED", <<>>) >>
        whole == << Line("INITIALIZED", <<>>), Line("MOVE", <<1, 1, 2>>),
                    Line("ROUND_END", <<>>) >>
    IN /\ (/\ pc = "callback"
           /\ world_state = C13_Snapshot
           /\ pending_actions = <<>>
           /\ last_call'.op = "move_in_direction"
           /\ last_call'.cell_id = 1
           /\ last_call'.direction = "East"
           => pending_actions' = << [tag |-> "Move", cell_id |-> 1, x |-> 1, y |-> 2] >>)
       /\ (/\ pc = "end_round"
           /\ output = first
           /\ pending_actions = << [tag |-> "Move", cell_id |-> 1, x |-> 1, y |-> 2] >>
           /\ pc' = "loop"
           => output' = whole)
       /\ (/\ pc = "loop"
           /\ output = whole
           /\ reads' = reads + 1
           /\ command'.tag = "EndGame"
           /\ pc' # "failed"
           => pc' = "ended" /\ output' = whole)

\* C13: move_in_direction moves one square in its direction, once.
C13_MoveInDirection == [][C13_Step /\ C13_ScenarioStep]_vars

\* The scenario has run: the loop ended with the MOVE of cell 1 to (1,2)
\* written between INITIALIZED and ROUND_END.
C13_Witness ==
    /\ pc = "ended"
    /\ reads = 4
    /\ world_state = C13_Snapshot
    /\ output = << Line("INITIALIZED", <<>>), Line("MOVE", <<1, 1, 2>>),
                   Line("ROUND_END", <<>>) >>

\* The inbound grammar: the keywords, and for each the variant and its fields
\* in the order of the arguments.
C14_Keywords ==
    { "INITIALIZE", "SPAWN", "DIE", "SET_CELL_PROPERTIES", "CONFLICTING_ACTIONS",
      "RUN_ROUND", "END_GAME" }

C14_Variant(kw) ==
    CASE kw = "INITIALIZE" -> "Initialize"
      [] kw = "SPAWN" -> "Spawn"
      [] kw = "DIE" -> "Die"
      [] kw = "SET_CELL_PROPERTIES" -> "SetCellProperties"
      [] kw = "CONFLICTING_ACTIONS" -> "ConflictingActions"
      [] kw = "RUN_ROUND" -> "RunRound"
      [] kw = "END_GAME" -> "EndGame"

C14_Fields(kw) ==
    CASE kw = "INITIALIZE" -> <<"width", "height", "team_id", "my_column", "enemy_column">>
      [] kw = "SPAWN" -> <<"cell_id", "x", "y", "health", "team_id", "age">>
      [] kw = "DIE" -> <<"cell_id">>
      [] kw = "SET_CELL_PROPERTIES" -> <<"cell_id", "x", "y", "health", "age">>
      [] kw = "CONFLICTING_ACTIONS" -> <<"x", "y">>
      [] OTHER -> <<>>

\* The line matches a row of the grammar and its arguments are u32 numbers.
C14_Accepted(text) ==
    /\ text.kw \in C14_Keywords
    /\ Len(text.args) = Len(C14_Fields(text.kw))
    /\ \A i \in 1 .. Len(text.args) :
          text.args[i].isnum /\ text.args[i].n \in 0 .. U32Max

\* C14, steps: a line that was read decodes exactly when it matches the
\* grammar; the command then is the row's variant with the arguments as its
\* fields, in order; any other line makes the read fail with a decode error.
C14_Step ==
    reads' = reads + 1 /\ error' # "read" =>
        IF C14_Accepted(line')
        THEN /\ pc' # "failed"
             /\ error' = "none"
             /\ command'.tag = C14_Variant(line'.kw)
             /\ DOMAIN command' =
                   {"tag"} \cup {C14_Fields(line'.kw)[i] : i \in 1 .. Len(line'.args)}
             /\ \A i \in 1 .. Len(line'.args) :
                   command'[C14_Fields(line'.kw)[i]] = line'.args[i].n
        ELSE /\ pc' = "failed"
             /\ error' = "decode"
             /\ command' = command

\* C14: decode accepts the lines of the grammar and no other.
C14_DecodeGrammar == [][C14_Step]_vars

\* DIE with two arguments, both numbers, was read and rejected.
C14_Witness ==
    /\ pc = "failed"
    /\ error = "decode"
    /\ line = Line("DIE", <<Num(1), Num(U32Max)>>)

\* C15, steps: applying an INITIALIZE, whatever the snapshot before it, gives
\* a snapshot with the five values of the command as its properties and with
\* no cell.
C15_Step ==
    pc = "apply" /\ command.tag = "Initialize" =>
        /\ pc' = "inner"
        /\ world_state'.properties =
              [width |-> command.width, height |-> command.height,
               my_team_id |-> command.team_id, my_column |-> command.my_column,
               enemy_column |-> command.enemy_column]
        /\ DOMAIN world_state'.cells = {}
        /\ my_cells(world_state') = {}
        /\ enemy_cells(world_state') = {}

\* C15: INITIALIZE starts a fresh snapshot.
C15_InitializeIsFresh == [][C15_Step]_vars

\* An INITIALIZE applied as the fourth command, after a cell was spawned and
\* removed, left no cell.
C15_Witness ==
    /\ pc = "inner"
    /\ command.tag = "Initialize"
    /\ inits = 1
    /\ reads = 4
    /\ died = {1}
    /\ DOMAIN world_state.cells = {}
    /\ width(world_state) = 3

\* C16, steps: applying SET_CELL_PROPERTIES of an id of the snapshot sets
\* the position (x and y as i32), the health and the age of that cell to the
\* command's values and changes nothing else: not the cell's id, team_id,
\* is_enemy or bounds, not another cell, not the set of ids, not the
\* properties.
C16_Step ==
    pc = "apply" /\ command.tag = "SetCellProperties"
       /\ command.cell_id \in DOMAIN world_state.cells =>
        LET before == world_state.cells[command.cell_id]
            after == world_state'.cells[command.cell_id]
        IN /\ pc' = "inner"
           /\ DOMAIN world_state'.cells = DOMAIN world_state.cells
           /\ after.position = [x |-> AsI32(command.x), y |-> AsI32(command.y)]
           /\ after.health = command.health
           /\ after.age = command.age
           /\ after.cell_id = before.cell_id
           /\ after.team_id = before.team_id
           /\ after.is_enemy = before.is_enemy
           /\ after.world_properties = before.world_properties
           /\ \A k \in DOMAIN world_state.cells \ {command.cell_id} :
                 world_state'.cells[k] = world_state.cells[k]
           /\ world_state'.properties = world_state.properties

\* C16: SET_CELL_PROPERTIES updates position, health and age in place.
C16_SetCellPropertiesFrame == [][C16_Step]_vars

\* SET_CELL_PROPERTIES 1 1 2 90 1 was applied to cell 1, spawned at (0,2)
\* with health 100 in team 1, next to cell 2.
C16_Witness ==
    /\ pc = "inner"
    /\ command.tag = "SetCellProperties"
    /\ DOMAIN world_state.cells = {1, 2}
    /\ world_state.cells[1].position = Position(1, 2)
    /\ world_state.cells[1].health = 90
    /\ world_state.cells[1].age = 1
    /\ world_state.cells[1].team_id = 1

\* C17, steps: applying SPAWN leaves, under the command's id, one cell with
\* the command's position (x and y as i32), health, team_id and age, and
\* is_enemy telling whether the team is not my_team_id; the ids are those of
\* before and the command's id (the same ids when it was present), and every
\* other cell and the properties are unchanged.
C17_Step ==
    pc = "apply" /\ command.tag = "Spawn" =>
        LET id == command.cell_id
            after == world_state'.cells[id]
        IN /\ pc' = "inner"
           /\ DOMAIN world_state'.cells = DOMAIN world_state.cells \cup {id}
           /\ (id \in DOMAIN world_state.cells =>
                 DOMAIN world_state'.cells = DOMAIN world_state.cells)
           /\ Cardinality({c \in my_cells(world_state') \cup enemy_cells(world_state') :
                              c.cell_id = id}) = 1
           /\ after.cell_id = id
           /\ after.position = [x |-> AsI32(command.x), y |-> AsI32(command.y)]
           /\ after.health = command.health
           /\ after.team_id = command.team_id
           /\ after.age = command.age
           /\ after.is_enemy = (command.team_id # my_team_id(world_state))
           /\ \A k \in DOMAIN world_state.cells \ {id} :
                 world_state'.cells[k] = world_state.cells[k]
           /\ world_state'.properties = world_state.properties

\* C17: SPAWN inserts, and overwrites the cell of an id already present.
C17_SpawnOverwrites == [][C17_Step]_vars

\* After INITIALIZE 5 5 1 0 4: cell 1 was spawned in team 1, cell 2 in team 2,
\* and cell 1 was spawned again in team 2 with health 50.
C17_Witness ==
    /\ pc = "inner"
    /\ reads = 4
    /\ inits = 1
    /\ my_team_id(world_state) = 1
    /\ command.tag = "Spawn"
    /\ command.cell_id = 1
    /\ DOMAIN world_state.cells = {1, 2}
    /\ world_state.cells[1].team_id = 2
    /\ world_state.cells[1].health = 50
    /\ world_state.cells[1].is_enemy

\* Every line written, being sent or waiting in the queue, oldest first.
C18_AllLines == output \o LinesOf(taken) \o LinesOf(pending_actions)

\* The line of the n-th action a staging thread stages.
C18_LineOf(t, n) == Line("MOVE", <<StagerCell(t), n, 0>>)

\* How many times a line occurs in a sequence of lines.
C18_Occurrences(text, lines) == Cardinality({i \in DOMAIN lines : lines[i] = text})

\* C18, never duplicated, never lost: an action is written at most once; as
\* long as no write or flush has failed, an action whose add_action returned
\* is in exactly one place, written or still to be written; an action not
\* yet staged is nowhere.
C18_ExactlyOnce ==
    LET all == C18_AllLines
    IN \A t \in Stagers, n \in 1 .. MaxStaged :
          LET times == C18_Occurrences(C18_LineOf(t, n), all)
          IN /\ times <= 1
             /\ (n <= staged[t] /\ error = "none" => times = 1)
             /\ (n > staged[t] => times = 0)

\* C18, order: the actions of one thread are written, and wait, in the
\* order the thread staged them.
C18_ThreadOrder ==
    LET all == C18_AllLines
    IN \A j \in DOMAIN all : \A i \in 1 .. j - 1 :
          (/\ all[i].kw = "MOVE"
           /\ all[j].kw = "MOVE"
           /\ all[i].args[1] = all[j].args[1])
          => all[i].args[2] < all[j].args[2]

\* C18, contiguity: as long as no write or flush has failed, an action line
\* is followed by an action line or by ROUND_END, never by the line of
\* another operation, and the last line is an action line only while an
\* end_round is sending.
C18_Contiguous ==
    error = "none" =>
        /\ \A i \in 1 .. Len(output) - 1 :
              output[i].kw = "MOVE" => output[i + 1].kw \in {"MOVE", "ROUND_END"}
        /\ (Len(output) > 0 /\ output[Len(output)].kw = "MOVE" =>
               thread_pc["ender"] = "send" /\ taken # <<>>)

\* C18, steps: an end_round that has taken the queue sends what it took in
\* order, and while it does nothing else is written and nothing that it took
\* goes back to the queue; an end_round that returns Ok has written all it
\* took.
C18_Step ==
    /\ (thread_pc["ender"] = "send" /\ output' # output =>
           /\ taken # <<>>
           /\ output' = Append(output, fmt(Head(taken)))
           /\ taken' = Tail(taken))
    /\ (thread_pc["ender"] = "send" /\ thread_pc'["ender"] = "idle" /\ error' = "none" =>
           taken = <<>> /\ output[Len(output)] = Line("ROUND_END", <<>>))
    /\ (thread_pc["ender"] # "send" => output' = output \/ output' =
                                          Append(output, Line("INITIALIZED", <<>>)))

\* C18: the operations of the Communicator are atomic to one another.
C18_AtomicOperations ==
    /\ [](C18_ExactlyOnce /\ C18_ThreadOrder /\ C18_Contiguous)
    /\ [][C18_Step]_vars

\* Both threads staged twice, two end_round calls and the flush_action
\* returned Ok with the staging interleaved between them: INITIALIZED stands
\* between the two rounds, and each round wrote actions of both threads.
C18_Witness ==
    /\ error = "none"
    /\ staged = [t \in Stagers |-> MaxStaged]
    /\ rounds_completed = 2
    /\ pending_actions = <<>>
    /\ Len(output) = 7
    /\ output[1] = C18_LineOf("s2", 1)
    /\ output[2] = C18_LineOf("s1", 1)
    /\ output[3] = Line("ROUND_END", <<>>)
    /\ output[4] = Line("INITIALIZED", <<>>)
    /\ output[7] = Line("ROUND_END", <<>>)

\* The places of a stream where END_GAME is the first line or comes right
\* after a RUN_ROUND, and the first of them (0 when there is none).
C19_EndPlaces(s) ==
    {i \in DOMAIN s : /\ s[i] = Line("END_GAME", <<>>)
                      /\ (i = 1 \/ s[i - 1] = Line("RUN_ROUND", <<>>))}

C19_End(s) ==
    IF C19_EndPlaces(s) = {} THEN 0
    ELSE CHOOSE i \in C19_EndPlaces(s) : \A j \in C19_EndPlaces(s) : i <= j

\* The ids present after the first n lines of a stream.
RECURSIVE C19_Present(_, _)
C19_Present(s, n) ==
    IF n = 0 THEN {}
    ELSE LET before == C19_Present(s, n - 1)
         IN CASE s[n].kw = "INITIALIZE" -> {}
              [] s[n].kw = "SPAWN" -> before \cup {s[n].args[1].n}
              [] s[n].kw = "DIE" -> before \ {s[n].args[1].n}
              [] OTHER -> before

\* The stream is one the claim is about: its lines up to that END_GAME are
\* commands of the grammar, and each SET_CELL_PROPERTIES among them names a
\* cell present when it is read.
C19_Premise(s) ==
    /\ C19_End(s) > 0
    /\ \A i \in 1 .. C19_End(s) :
          /\ C14_Accepted(s[i])
          /\ (s[i].kw = "SET_CELL_PROPERTIES" =>
                 s[i].args[1].n \in C19_Present(s, i - 1))

\* The RUN_ROUND lines before that END_GAME.
C19_Rounds(s) ==
    Cardinality({i \in 1 .. C19_End(s) - 1 : s[i] = Line("RUN_ROUND", <<>>)})

\* A read, a write or a flush failed.
C19_TransportFailed == pc = "failed" /\ error \in {"read", "write", "flush"}

\* C19, safety: on such a stream nothing is read after that END_GAME, and
\* when the loop has ended it has read up to it and has invoked the callback
\* once for each RUN_ROUND before it.
C19_ReadsUpToEnd ==
    C19_Premise(stream) =>
        /\ reads <= C19_End(stream)
        /\ callbacks <= C19_Rounds(stream)
        /\ pc \notin {"panicked"}
        /\ error # "decode"
        /\ (pc = "ended" =>
               /\ reads = C19_End(stream)
               /\ callbacks = C19_Rounds(stream)
               /\ rounds_completed = callbacks
               /\ error = "none")

\* C19: on such a stream, with a callback that returns, run_loop reaches
\* ENDED unless the transport fails.
C19_Terminates ==
    /\ [] C19_ReadsUpToEnd
    /\ (C19_Premise(stream) ~> (pc = "ended" \/ C19_TransportFailed))

\* INITIALIZE, SPAWN, RUN_ROUND, END_GAME: the loop ended after one round.
C19_Witness ==
    /\ pc = "ended"
    /\ C19_Premise(stream)
    /\ Len(stream) = 4
    /\ stream[1].kw = "INITIALIZE"
    /\ stream[2].kw = "SPAWN"
    /\ reads = 4
    /\ callbacks = 1
    /\ Len(output) >= 3

\* C20: in every snapshot, the cell stored under key k has cell_id k, has
\* is_enemy true exactly when its team_id differs from the snapshot's
\* my_team_id, and carries a copy of the snapshot's properties; so is_enemy
\* agrees with membership in enemy_cells().
C20_SnapshotConsistent ==
    \A k \in DOMAIN world_state.cells :
        LET c == world_state.cells[k]
        IN /\ c.cell_id = k
           /\ c.is_enemy = (c.team_id # my_team_id(world_state))
           /\ c.world_properties = world_state.properties
           /\ c.world_properties.width = world_state.properties.width
           /\ c.world_properties.height = world_state.properties.height
           /\ c.is_enemy = (c \in enemy_cells(world_state))
           /\ (~c.is_enemy) = (c \in my_cells(world_state))

\* After a repeated INITIALIZE that changed the team and the board, a cell of
\* each team has been spawned: cell 1 of team 1 is an enemy, cell 2 of team 2
\* is mine.
C20_Witness ==
    /\ inits = 2
    /\ my_team_id(world_state) = 2
    /\ world_state.properties.width = 3
    /\ DOMAIN world_state.cells = {1, 2}
    /\ world_state.cells[1].is_enemy
    /\ ~world_state.cells[2].is_enemy

\* The absolute value of an integer, without a word width.
C21_Abs(n) == IF n < 0 THEN 0 - n ELSE n

\* A written line is valid for a snapshot: a MOVE or ATTACK names a cell of
\* the snapshot and a square of its board; a MOVE target is at Manhattan
\* distance 1 from the cell, an ATTACK target within 1 of it on each axis.
C21_Valid(l, ws) ==
    l.kw \in {"MOVE", "ATTACK"} =>
        /\ l.args[1] \in DOMAIN ws.cells
        /\ ws.properties.width # 0
        /\ ws.properties.height # 0
        /\ 0 <= l.args[2] /\ l.args[2] < ws.properties.width
        /\ 0 <= l.args[3] /\ l.args[3] < ws.properties.height
        /\ LET at == ws.cells[l.args[1]].position
               dx == C21_Abs(l.args[2] - at.x)
               dy == C21_Abs(l.args[3] - at.y)
           IN /\ (l.kw = "MOVE" => dx + dy = 1)
              /\ (l.kw = "ATTACK" => dx <= 1 /\ dy <= 1)

\* Every line a step writes is valid for the snapshot of the round.
C21_Step ==
    \A i \in Len(output) + 1 .. Len(output') : C21_Valid(output'[i], world_state)

\* C21: every MOVE or ATTACK line written names a cell_id present in the
\* snapshot handed to that round's callback and a target inside its board, a
\* MOVE target at Manhattan distance exactly 1 from and an ATTACK target
\* within 1 on each axis of the cell's position in that snapshot, and none is
\* written for a board of width 0 or height 0.
C21_OutputValid == [][C21_Step]_vars

\* The board's width and height as is_in_bounds reads them.
C21_Width == IF AsI32(world_state.properties.width) > 0
             THEN AsI32(world_state.properties.width) ELSE 0

C21_Height == IF AsI32(world_state.properties.height) > 0
              THEN AsI32(world_state.properties.height) ELSE 0

\* No cell of the snapshot is 2^31 squares to the left of or below a square
\* of the board: the differences the checks take do not leave the i32.
C21_NoOverflow ==
    \A k \in DOMAIN world_state.cells :
        /\ world_state.cells[k].position.x >= I32Min + C21_Width
        /\ world_state.cells[k].position.y >= I32Min + C21_Height

\* C21 for the snapshots where those differences do not overflow.
C21_OutputValidWithoutOverflow == [][C21_NoOverflow => C21_Step]_vars

\* A MOVE and an ATTACK have been written in one round.
C21_Written ==
    /\ pc = "loop"
    /\ \E i \in 1 .. Len(output) : output[i].kw = "MOVE"
    /\ \E i \in 1 .. Len(output) : output[i].kw = "ATTACK"

\* Nothing but ROUND_END is written for the default board.
C21_DefaultBoardSilent ==
    world_state.properties = DefaultWorldProperties =>
        \A i \in 1 .. Len(output) : output[i].kw \notin {"MOVE", "ATTACK"}

=============================================================================
